---- MODULE Spec2Model ----
(***************************************************************************)
(* A model of SafeMathTransformer.py: the calculator(equation) function    *)
(* and the SafeMathTransformer node visitor it drives.                     *)
(*                                                                         *)
(* Text is a sequence of one-character strings.  One behaviour is one call *)
(* of calculator (SpecPair: two calls in a row); each action is one step   *)
(* of its body, and an exception raised by a step moves control to the     *)
(* except clause of lines 95-98.                                           *)
(***************************************************************************)
EXTENDS Integers, Sequences, FiniteSets, TLC

VARIABLES equation, pc, cleaned_equation, tree, transformer, result,
          exc, printed, ret, visited, prev

vars == <<equation, pc, cleaned_equation, tree, transformer, result,
          exc, printed, ret, visited, prev>>

(***************************************************************************)
(* Bounds of the model.                                                    *)
(***************************************************************************)
\* longest input, counted in lexemes of Alphabet
MaxLen == 3

\* The one element of a singleton set.  { e(x) : x \in {v} } evaluates v
\* once however often e uses x; the definitions below bind their
\* intermediate results this way.
The(S) == CHOOSE v \in S : TRUE

(***************************************************************************)
(* Characters.                                                             *)
(***************************************************************************)
Whitespace == {" ", "\t"}

Digits == {"0", "1", "2", "3", "4", "5", "6", "7", "8", "9"}

Letters == {"a", "b", "s", "e", "T", "r", "u", "F", "l", "N", "o", "n",
            "t", "i", "m", "p", "_", "j"}

DigitVal(c) ==
    CASE c = "0" -> 0 [] c = "1" -> 1 [] c = "2" -> 2 [] c = "3" -> 3
      [] c = "4" -> 4 [] c = "5" -> 5 [] c = "6" -> 6 [] c = "7" -> 7
      [] c = "8" -> 8 [] c = "9" -> 9

DigitChar(n) ==
    CASE n = 0 -> "0" [] n = 1 -> "1" [] n = 2 -> "2" [] n = 3 -> "3"
      [] n = 4 -> "4" [] n = 5 -> "5" [] n = 6 -> "6" [] n = 7 -> "7"
      [] n = 8 -> "8" [] n = 9 -> "9"

(***************************************************************************)
(* The inputs: every text of at most MaxLen lexemes of Alphabet, spelled   *)
(* out in characters, and the examples the documentation of the program    *)
(* names.                                                                  *)
(***************************************************************************)
Alphabet ==
    { <<"0">>, <<"1">>, <<"+">>, <<"-">>, <<"*">>, <<"/">>, <<"(">>, <<")">>,
      <<"a">>, <<" ">>, <<"~">>, <<".">>, <<"T", "r", "u", "e">>,
      <<"1", "e", "9", "9", "9">> }

RECURSIVE TextsOfLen(_)
TextsOfLen(k) ==
    IF k = 0 THEN { <<>> }
    ELSE { l \o t : l \in Alphabet, t \in TextsOfLen(k - 1) }

Examples ==
    { <<"2", "+", "3", "*", "4">>,
      <<"(", "2", "+", "3", ")", "*", "4">>,
      <<"1", " ", "+", " ", "2">>,
      <<"-", "5", "+", "3">>,
      <<"-", "-", "5">>,
      <<"2", "+">>,
      <<"1", "/", "(", "1", "-", "1", ")">>,
      <<"1", "+", "1", "/", "0">>,
      <<"2", "*", "*", "3">>,
      <<"2", "^", "3">>,
      <<"1", "<", "2">>,
      <<"[", "1", ",", "2", "]">>,
      <<"'", "a", "'">>,
      <<"(", "1", ")", "o", "r", "(", "2", ")">>,
      <<"n", "o", "t", "(", "1", ")">>,
      <<"a", "b", "s", "(", "-", "1", ")">>,
      <<"1", "+", "a", "b", "s", "(", "2", ")">>,
      <<"_", "_", "i", "m", "p", "o", "r", "t", "_", "_", "(", "'", "o", "s", "'", ")">>,
      <<"1", "j">>,
      <<"N", "o", "n", "e">>,
      <<"F", "a", "l", "s", "e">>,
      <<"-", "T", " ", "r", "u", "e">>,
      <<"1", ".", "5", "e", "3", "0", "8">>,
      <<"-", "1", "e", "3", "0", "8">>,
      <<"2", ".", "5", "\t">>,
      <<"-", "0", ".", "0">> }

Equations == UNION { TextsOfLen(k) : k \in 0..MaxLen } \cup Examples

(***************************************************************************)
(* Step 1 (line 67): ''.join(equation.split()).  split() cuts the text at  *)
(* runs of whitespace and drops empty words; join concatenates the words.  *)
(***************************************************************************)
\* the index after the run of non-whitespace characters that starts at i
RECURSIVE ScanWord(_, _)
ScanWord(s, i) ==
    IF i <= Len(s) /\ s[i] \notin Whitespace THEN ScanWord(s, i + 1) ELSE i

\* the words of s from index i on
RECURSIVE SplitFrom(_, _)
SplitFrom(s, i) ==
    IF i > Len(s) THEN <<>>
    ELSE IF s[i] \in Whitespace THEN SplitFrom(s, i + 1)
    ELSE The({ <<SubSeq(s, i, j - 1)>> \o SplitFrom(s, j) : j \in {ScanWord(s, i)} })

split(s) == SplitFrom(s, 1)

RECURSIVE join(_)
join(words) ==
    IF words = <<>> THEN <<>> ELSE Head(words) \o join(Tail(words))

(***************************************************************************)
(* Python values.  Every value is a record of the same shape:              *)
(*   ty : its type's name; sp : "fin", "inf" or "nan" for a number and     *)
(*   "obj" for anything else; a finite number is s * (n / d) * 10^x with   *)
(*   s in {1,-1}, n >= 0, d > 0.  An int or bool has d = 1 and x = 0; a    *)
(*   float is kept in lowest terms with d coprime to 10 and n no multiple  *)
(*   of 10, so equal floats are equal records (-0.0 is s = -1, n = 0).     *)
(***************************************************************************)
Val(ty, sp, s, n, d, x) == [ty |-> ty, sp |-> sp, s |-> s, n |-> n, d |-> d, x |-> x]

Obj(ty) == Val(ty, "obj", 1, 0, 1, 0)

None == Obj("NoneType")

Absent == Obj("<no attribute>")

PyInt(k) == Val("int", "fin", IF k < 0 THEN -1 ELSE 1, IF k < 0 THEN -k ELSE k, 1, 0)

PyBool(b) == Val("bool", "fin", 1, IF b THEN 1 ELSE 0, 1, 0)

Inf(s) == Val("float", "inf", s, 0, 1, 0)

NaN == Val("float", "nan", 1, 0, 1, 0)

RECURSIVE GCD(_, _)
GCD(a, b) == IF b = 0 THEN a ELSE GCD(b, a % b)

RECURSIVE Pow10(_)
Pow10(k) == IF k = 0 THEN 1 ELSE 10 * Pow10(k - 1)

RECURSIVE NDigits(_)
NDigits(n) == IF n < 10 THEN 1 ELSE 1 + NDigits(n \div 10)

\* n * 10^x > m * 10^y, for n, m >= 0, without forming the powers
DecGt(n, x, m, y) ==
    IF n = 0 THEN FALSE
    ELSE IF m = 0 THEN TRUE
    ELSE LET on == NDigits(n) + x
             om == NDigits(m) + y
             w  == IF NDigits(n) > NDigits(m) THEN NDigits(n) ELSE NDigits(m)
         IN IF on # om THEN on > om
            ELSE n * Pow10(w - NDigits(n)) > m * Pow10(w - NDigits(m))

RECURSIVE NormFloat(_, _, _, _)
NormFloat(s, n, d, x) ==
    IF n = 0 THEN Val("float", "fin", s, 0, 1, 0)
    ELSE IF GCD(n, d) # 1 THEN NormFloat(s, n \div GCD(n, d), d \div GCD(n, d), x)
    ELSE IF n % 10 = 0 THEN NormFloat(s, n \div 10, d, x + 1)
    ELSE IF d % 2 = 0 THEN NormFloat(s, n * 5, d \div 2, x - 1)
    ELSE IF d % 5 = 0 THEN NormFloat(s, n * 2, d \div 5, x - 1)
    ELSE Val("float", "fin", s, n, d, x)

\* The double nearest to s * (n / d) * 10^x.  The largest double is
\* 1.7976931348623157e308 and the smallest positive one 5e-324; the model
\* keeps the leading digits its integers can hold.
PyFloat(s, n, d, x) ==
    IF DecGt(n, x, 17976931 * d, 301) THEN Inf(s)
    ELSE IF n # 0 /\ NDigits(n) + x < -324 THEN Val("float", "fin", s, 0, 1, 0)
    ELSE NormFloat(s, n, d, x)

IsNumber(v) == v.ty \in {"int", "float", "bool"}

(***************************************************************************)
(* Step 2 (line 70): ast.parse(cleaned_equation, mode='eval').  The        *)
(* tokens and the grammar are those of Python 3.8 to 3.11 for the          *)
(* constructs the inputs can spell: numbers, names, True/False/None,       *)
(* strings, "...", grouping, the empty tuple, lists, calls, attributes,    *)
(* unary + - ~ not, binary + - * / // ** ^, "<" comparisons and "or".      *)
(***************************************************************************)
Token(t, op, id, v) == [t |-> t, op |-> op, id |-> id, v |-> v]

OpTok(op) == Token("OP", op, <<>>, None)

EndTok == Token("END", "", <<>>, None)

ErrTok == Token("ERROR", "", <<>>, None)

OpChars == {"+", "-", "*", "/", "(", ")", "[", "]", ",", "~", "^", "<", "."}

IsDigitAt(s, i) == i <= Len(s) /\ s[i] \in Digits

IsLetterAt(s, i) == i <= Len(s) /\ s[i] \in Letters

IsAt(s, i, c) == i <= Len(s) /\ s[i] = c

\* the index after the run of digits that starts at i
RECURSIVE ScanDigits(_, _)
ScanDigits(s, i) == IF IsDigitAt(s, i) THEN ScanDigits(s, i + 1) ELSE i

\* the index after the run of name characters that starts at i
RECURSIVE ScanName(_, _)
ScanName(s, i) ==
    IF IsLetterAt(s, i) \/ IsDigitAt(s, i) THEN ScanName(s, i + 1) ELSE i

\* the index of the next quote at or after i, or 0
RECURSIVE ScanQuote(_, _)
ScanQuote(s, i) ==
    IF i > Len(s) THEN 0 ELSE IF s[i] = "'" THEN i ELSE ScanQuote(s, i + 1)

\* the number the digits s[i..j-1] spell (0 for none)
RECURSIVE DigitsVal(_, _, _)
DigitsVal(s, i, j) ==
    IF i >= j THEN 0 ELSE DigitsVal(s, i, j - 1) * 10 + DigitVal(s[j - 1])

AllZeros(s, i, j) == \A k \in i..(j - 1) : s[k] = "0"

\* A number that starts at i: [ok, v, next].  intEnd, fracEnd and expEnd are
\* the ends of its integer part, fraction and exponent.
NumberValue(s, i, intEnd, fracFrom, fracEnd, expFrom, expEnd) ==
    LET hasExp  == expEnd > fracEnd
        expVal  == IF hasExp
                   THEN (IF IsAt(s, fracEnd + 1, "-") THEN -1 ELSE 1)
                        * DigitsVal(s, expFrom, expEnd)
                   ELSE 0
        isFloat == fracFrom > intEnd \/ hasExp
        isImag  == IsAt(s, expEnd, "j")
        numEnd  == IF isImag THEN expEnd + 1 ELSE expEnd
        mant    == DigitsVal(s, i, intEnd) * Pow10(fracEnd - fracFrom)
                   + DigitsVal(s, fracFrom, fracEnd)
        bad     == \/ (intEnd = i /\ fracEnd = fracFrom)       \* no digit at all
                   \/ (~isFloat /\ ~isImag /\ intEnd - i > 1   \* leading zeros
                       /\ s[i] = "0" /\ ~AllZeros(s, i, intEnd))
                   \/ IsLetterAt(s, numEnd) \/ IsDigitAt(s, numEnd)
        v       == IF isImag THEN Obj("complex")
                   ELSE IF isFloat
                   THEN PyFloat(1, mant, 1, expVal - (fracEnd - fracFrom))
                   ELSE PyInt(mant)
    IN  [ok |-> ~bad, v |-> v, next |-> numEnd]

ScanExponent(s, i, intEnd, fracFrom, fracEnd) ==
    LET signed  == IsAt(s, fracEnd + 1, "+") \/ IsAt(s, fracEnd + 1, "-")
        expFrom == IF signed THEN fracEnd + 2 ELSE fracEnd + 1
    IN  IF IsAt(s, fracEnd, "e") /\ IsDigitAt(s, expFrom)
        THEN The({ NumberValue(s, i, intEnd, fracFrom, fracEnd, expFrom, expEnd) :
                   expEnd \in {ScanDigits(s, expFrom)} })
        ELSE NumberValue(s, i, intEnd, fracFrom, fracEnd, expFrom, fracEnd)

ScanFraction(s, i, intEnd) ==
    IF IsAt(s, intEnd, ".")
    THEN The({ ScanExponent(s, i, intEnd, intEnd + 1, fracEnd) :
               fracEnd \in {ScanDigits(s, intEnd + 1)} })
    ELSE ScanExponent(s, i, intEnd, intEnd, intEnd)

ScanNumber(s, i) == The({ ScanFraction(s, i, intEnd) : intEnd \in {ScanDigits(s, i)} })

Keyword(id) ==
    CASE id = <<"T", "r", "u", "e">> -> Token("CONST", "", id, PyBool(TRUE))
      [] id = <<"F", "a", "l", "s", "e">> -> Token("CONST", "", id, PyBool(FALSE))
      [] id = <<"N", "o", "n", "e">> -> Token("CONST", "", id, None)
      [] id = <<"n", "o", "t">> -> OpTok("not")
      [] id = <<"o", "r">> -> OpTok("or")
      [] OTHER -> Token("NAME", "", id, None)

RECURSIVE Tokenize(_, _)
Tokenize(s, i) ==
    IF i > Len(s) THEN <<EndTok>>
    ELSE IF s[i] \in Whitespace THEN Tokenize(s, i + 1)
    ELSE IF s[i] \in Digits \/ (s[i] = "." /\ IsDigitAt(s, i + 1)) THEN
        The({ IF num.ok THEN <<Token("NUMBER", "", <<>>, num.v)>> \o Tokenize(s, num.next)
              ELSE <<ErrTok>> : num \in {ScanNumber(s, i)} })
    ELSE IF s[i] \in Letters THEN
        The({ <<Keyword(SubSeq(s, i, j - 1))>> \o Tokenize(s, j) : j \in {ScanName(s, i)} })
    ELSE IF s[i] = "'" THEN
        The({ IF j = 0 THEN <<ErrTok>>
              ELSE <<Token("STRING", "", <<>>, Obj("str"))>> \o Tokenize(s, j + 1) :
              j \in {ScanQuote(s, i + 1)} })
    ELSE IF s[i] = "*" /\ IsAt(s, i + 1, "*") THEN <<OpTok("**")>> \o Tokenize(s, i + 2)
    ELSE IF s[i] = "/" /\ IsAt(s, i + 1, "/") THEN <<OpTok("//")>> \o Tokenize(s, i + 2)
    ELSE IF s[i] = "." /\ IsAt(s, i + 1, ".") /\ IsAt(s, i + 2, ".")
        THEN <<OpTok("...")>> \o Tokenize(s, i + 3)
    ELSE IF s[i] \in OpChars THEN <<OpTok(s[i])>> \o Tokenize(s, i + 1)
    ELSE <<ErrTok>>

(***************************************************************************)
(* The syntax tree: one record per ast node, with the fields of the ast    *)
(* class; an operator and a context are nodes too.                         *)
(***************************************************************************)
Leaf(kind) == [kind |-> kind]

Constant(v) == [kind |-> "Constant", value |-> v]

Name(id) == [kind |-> "Name", id |-> id, ctx |-> Leaf("Load")]

BinOp(l, op, r) == [kind |-> "BinOp", left |-> l, op |-> Leaf(op), right |-> r]

UnaryOp(op, x) == [kind |-> "UnaryOp", op |-> Leaf(op), operand |-> x]

Call(f, args) == [kind |-> "Call", func |-> f, args |-> args]

Attribute(x, attr) == [kind |-> "Attribute", value |-> x, attr |-> attr, ctx |-> Leaf("Load")]

List(elts) == [kind |-> "List", elts |-> elts, ctx |-> Leaf("Load")]

Tuple(elts) == [kind |-> "Tuple", elts |-> elts, ctx |-> Leaf("Load")]

Compare(l, ops, cs) == [kind |-> "Compare", left |-> l, ops |-> ops, comparators |-> cs]

BoolOp(op, values) == [kind |-> "BoolOp", op |-> Leaf(op), values |-> values]

Expression(body) == [kind |-> "Expression", body |-> body]

\* a parse result: the node and the index of the next token
Parsed(node, pos) == [ok |-> TRUE, node |-> node, pos |-> pos]

NoParse == [ok |-> FALSE, node |-> Leaf("<none>"), pos |-> 0]

\* a parsed list of expressions
ParsedSeq(nodes, pos) == [ok |-> TRUE, nodes |-> nodes, pos |-> pos]

NoParseSeq == [ok |-> FALSE, nodes |-> <<>>, pos |-> 0]

IsOp(ts, p, op) == ts[p].t = "OP" /\ ts[p].op = op

SumOp(op) == IF op = "+" THEN "Add" ELSE "Sub"

TermOp(op) == IF op = "*" THEN "Mult" ELSE IF op = "/" THEN "Div" ELSE "FloorDiv"

FactorOp(op) == IF op = "+" THEN "UAdd" ELSE IF op = "-" THEN "USub" ELSE "Invert"

RECURSIVE ParseExpr(_, _), ParseOrRest(_, _, _), ParseNot(_, _),
          ParseCompare(_, _), ParseCompareRest(_, _, _, _, _),
          ParseXor(_, _), ParseXorRest(_, _, _),
          ParseSum(_, _), ParseSumRest(_, _, _),
          ParseTerm(_, _), ParseTermRest(_, _, _),
          ParseFactor(_, _), ParsePower(_, _),
          ParsePrimary(_, _), ParseTrailers(_, _, _),
          ParseAtom(_, _), ParseStrings(_, _), ParseList(_, _, _)

\* disjunction: inversion ("or" inversion)*
ParseExpr(ts, p) ==
    The({ IF ~first.ok THEN NoParse
          ELSE IF IsOp(ts, first.pos, "or")
          THEN ParseOrRest(ts, <<first.node>>, first.pos)
          ELSE first : first \in {ParseNot(ts, p)} })

ParseOrRest(ts, values, p) ==
    IF IsOp(ts, p, "or") THEN
        The({ IF nxt.ok THEN ParseOrRest(ts, Append(values, nxt.node), nxt.pos)
              ELSE NoParse : nxt \in {ParseNot(ts, p + 1)} })
    ELSE Parsed(BoolOp("Or", values), p)

\* inversion: "not" inversion | comparison
ParseNot(ts, p) ==
    IF IsOp(ts, p, "not") THEN
        The({ IF x.ok THEN Parsed(UnaryOp("Not", x.node), x.pos) ELSE NoParse :
              x \in {ParseNot(ts, p + 1)} })
    ELSE ParseCompare(ts, p)

\* comparison: xor_expr ("<" xor_expr)*
ParseCompare(ts, p) ==
    The({ IF ~first.ok THEN NoParse
          ELSE IF IsOp(ts, first.pos, "<")
          THEN ParseCompareRest(ts, first.node, <<>>, <<>>, first.pos)
          ELSE first : first \in {ParseXor(ts, p)} })

ParseCompareRest(ts, l, ops, cs, p) ==
    IF IsOp(ts, p, "<") THEN
        The({ IF nxt.ok
              THEN ParseCompareRest(ts, l, Append(ops, Leaf("Lt")),
                                    Append(cs, nxt.node), nxt.pos)
              ELSE NoParse : nxt \in {ParseXor(ts, p + 1)} })
    ELSE Parsed(Compare(l, ops, cs), p)

\* xor_expr: sum ("^" sum)*, left to right
ParseXor(ts, p) ==
    The({ IF first.ok THEN ParseXorRest(ts, first.node, first.pos) ELSE NoParse :
          first \in {ParseSum(ts, p)} })

ParseXorRest(ts, l, p) ==
    IF IsOp(ts, p, "^") THEN
        The({ IF r.ok THEN ParseXorRest(ts, BinOp(l, "BitXor", r.node), r.pos)
              ELSE NoParse : r \in {ParseSum(ts, p + 1)} })
    ELSE Parsed(l, p)

\* sum: term (("+" | "-") term)*, left to right
ParseSum(ts, p) ==
    The({ IF first.ok THEN ParseSumRest(ts, first.node, first.pos) ELSE NoParse :
          first \in {ParseTerm(ts, p)} })

ParseSumRest(ts, l, p) ==
    IF IsOp(ts, p, "+") \/ IsOp(ts, p, "-") THEN
        The({ IF r.ok THEN ParseSumRest(ts, BinOp(l, SumOp(ts[p].op), r.node), r.pos)
              ELSE NoParse : r \in {ParseTerm(ts, p + 1)} })
    ELSE Parsed(l, p)

\* term: factor (("*" | "/" | "//") factor)*, left to right
ParseTerm(ts, p) ==
    The({ IF first.ok THEN ParseTermRest(ts, first.node, first.pos) ELSE NoParse :
          first \in {ParseFactor(ts, p)} })

ParseTermRest(ts, l, p) ==
    IF IsOp(ts, p, "*") \/ IsOp(ts, p, "/") \/ IsOp(ts, p, "//") THEN
        The({ IF r.ok THEN ParseTermRest(ts, BinOp(l, TermOp(ts[p].op), r.node), r.pos)
              ELSE NoParse : r \in {ParseFactor(ts, p + 1)} })
    ELSE Parsed(l, p)

\* factor: ("+" | "-" | "~") factor | power
ParseFactor(ts, p) ==
    IF IsOp(ts, p, "+") \/ IsOp(ts, p, "-") \/ IsOp(ts, p, "~") THEN
        The({ IF x.ok THEN Parsed(UnaryOp(FactorOp(ts[p].op), x.node), x.pos)
              ELSE NoParse : x \in {ParseFactor(ts, p + 1)} })
    ELSE ParsePower(ts, p)

\* power: primary ["**" factor]
ParsePower(ts, p) ==
    The({ IF ~base.ok THEN NoParse
          ELSE IF IsOp(ts, base.pos, "**") THEN
              The({ IF e.ok THEN Parsed(BinOp(base.node, "Pow", e.node), e.pos)
                    ELSE NoParse : e \in {ParseFactor(ts, base.pos + 1)} })
          ELSE base : base \in {ParsePrimary(ts, p)} })

\* primary: atom ("(" [arguments] ")" | "." NAME)*
ParsePrimary(ts, p) ==
    The({ IF a.ok THEN ParseTrailers(ts, a.node, a.pos) ELSE NoParse :
          a \in {ParseAtom(ts, p)} })

ParseTrailers(ts, x, p) ==
    IF IsOp(ts, p, "(") THEN
        The({ IF args.ok THEN ParseTrailers(ts, Call(x, args.nodes), args.pos)
              ELSE NoParse : args \in {ParseList(ts, p + 1, ")")} })
    ELSE IF IsOp(ts, p, ".") THEN
        IF ts[p + 1].t = "NAME"
        THEN ParseTrailers(ts, Attribute(x, ts[p + 1].id), p + 2)
        ELSE NoParse
    ELSE Parsed(x, p)

\* atom: NAME | True | False | None | NUMBER | STRING+ | "..."
\*       | "(" ")" | "(" expression ")" | "[" [expressions] "]"
ParseAtom(ts, p) ==
    CASE ts[p].t = "NAME" -> Parsed(Name(ts[p].id), p + 1)
      [] ts[p].t \in {"CONST", "NUMBER"} -> Parsed(Constant(ts[p].v), p + 1)
      [] ts[p].t = "STRING" -> Parsed(Constant(ts[p].v), ParseStrings(ts, p))
      [] IsOp(ts, p, "...") -> Parsed(Constant(Obj("ellipsis")), p + 1)
      [] IsOp(ts, p, "(") ->
            IF IsOp(ts, p + 1, ")") THEN Parsed(Tuple(<<>>), p + 2)
            ELSE The({ IF x.ok /\ IsOp(ts, x.pos, ")") THEN Parsed(x.node, x.pos + 1)
                       ELSE NoParse : x \in {ParseExpr(ts, p + 1)} })
      [] IsOp(ts, p, "[") ->
            The({ IF elts.ok THEN Parsed(List(elts.nodes), elts.pos) ELSE NoParse :
                  elts \in {ParseList(ts, p + 1, "]")} })
      [] OTHER -> NoParse

\* adjacent string literals are one constant: the index after the last one
ParseStrings(ts, p) == IF ts[p].t = "STRING" THEN ParseStrings(ts, p + 1) ELSE p

\* expressions separated by commas, up to the closing bracket
ParseList(ts, p, close) ==
    IF IsOp(ts, p, close) THEN ParsedSeq(<<>>, p + 1)
    ELSE The({ IF ~x.ok THEN NoParseSeq
               ELSE IF IsOp(ts, x.pos, close) THEN ParsedSeq(<<x.node>>, x.pos + 1)
               ELSE IF IsOp(ts, x.pos, ",") THEN
                   The({ IF rest.ok THEN ParsedSeq(<<x.node>> \o rest.nodes, rest.pos)
                         ELSE NoParseSeq : rest \in {ParseList(ts, x.pos + 1, close)} })
               ELSE NoParseSeq : x \in {ParseExpr(ts, p)} })

\* ast.parse in eval mode: the Expression, or a SyntaxError
ParseTokens(ts) ==
    IF ts[Len(ts)].t = "ERROR" THEN NoParse
    ELSE The({ IF x.ok /\ ts[x.pos].t = "END" THEN Parsed(Expression(x.node), x.pos)
               ELSE NoParse : x \in {ParseExpr(ts, 1)} })

parse(source) == The({ ParseTokens(ts) : ts \in {Tokenize(source, 1)} })

(***************************************************************************)
(* Python arithmetic on numbers, as the lambdas of lines 6-10 and 45-46    *)
(* use it.  A result is Ok(v) or Raise(exception name).  Finite values are *)
(* exact rationals; a float result beyond the largest double is infinite.  *)
(***************************************************************************)
Ok(v) == [ok |-> TRUE, v |-> v, exc |-> ""]

Raise(e) == [ok |-> FALSE, v |-> None, exc |-> e]

IsZero(v) == v.sp = "fin" /\ v.n = 0

IsIntLike(v) == v.ty \in {"int", "bool"}

\* a finite rational as an int or a float
Number(asInt, s, n, d, x) ==
    IF asInt THEN Val("int", "fin", IF n = 0 THEN 1 ELSE s, n, 1, 0)
    ELSE PyFloat(s, n, d, x)

\* -x
PyNeg(v) ==
    IF ~IsNumber(v) THEN Raise("TypeError")
    ELSE IF IsIntLike(v) THEN Ok(Number(TRUE, -v.s, v.n, 1, 0))
    ELSE IF v.sp = "nan" THEN Ok(v)
    ELSE Ok([v EXCEPT !.s = -v.s])

\* +x
PyPos(v) ==
    IF ~IsNumber(v) THEN Raise("TypeError")
    ELSE IF IsIntLike(v) THEN Ok(Number(TRUE, v.s, v.n, 1, 0))
    ELSE Ok(v)

\* x + y; operands whose exponents are more than a double's 17 digits apart
\* leave the larger one unchanged
PyAdd(a, b) ==
    IF ~IsNumber(a) \/ ~IsNumber(b) THEN Raise("TypeError")
    ELSE IF a.sp = "nan" \/ b.sp = "nan" THEN Ok(NaN)
    ELSE IF a.sp = "inf" /\ b.sp = "inf" THEN Ok(IF a.s = b.s THEN a ELSE NaN)
    ELSE IF a.sp = "inf" THEN Ok(a)
    ELSE IF b.sp = "inf" THEN Ok(b)
    ELSE IF a.n # 0 /\ b.n # 0 /\ a.x - b.x > 17 THEN Ok(a)
    ELSE IF a.n # 0 /\ b.n # 0 /\ b.x - a.x > 17 THEN Ok(b)
    ELSE LET x   == IF a.x < b.x THEN a.x ELSE b.x
             num == a.s * a.n * Pow10(a.x - x) * b.d + b.s * b.n * Pow10(b.x - x) * a.d
             neg == num < 0 \/ (num = 0 /\ a.s = -1 /\ b.s = -1)
         IN  Ok(Number(IsIntLike(a) /\ IsIntLike(b), IF neg THEN -1 ELSE 1,
                       IF num < 0 THEN -num ELSE num, a.d * b.d, x))

\* x - y
PySub(a, b) == IF ~IsNumber(b) THEN Raise("TypeError") ELSE PyAdd(a, PyNeg(b).v)

\* x * y
PyMul(a, b) ==
    IF ~IsNumber(a) \/ ~IsNumber(b) THEN Raise("TypeError")
    ELSE IF a.sp = "nan" \/ b.sp = "nan" THEN Ok(NaN)
    ELSE IF a.sp = "inf" \/ b.sp = "inf"
    THEN Ok(IF IsZero(a) \/ IsZero(b) THEN NaN ELSE Inf(a.s * b.s))
    ELSE Ok(Number(IsIntLike(a) /\ IsIntLike(b), a.s * b.s, a.n * b.n, a.d * b.d, a.x + b.x))

\* x / y, true division
PyTrueDiv(a, b) ==
    IF ~IsNumber(a) \/ ~IsNumber(b) THEN Raise("TypeError")
    ELSE IF IsZero(b) THEN Raise("ZeroDivisionError")
    ELSE IF a.sp = "nan" \/ b.sp = "nan" THEN Ok(NaN)
    ELSE IF a.sp = "inf" THEN Ok(IF b.sp = "inf" THEN NaN ELSE Inf(a.s * b.s))
    ELSE IF b.sp = "inf" THEN Ok(Val("float", "fin", a.s * b.s, 0, 1, 0))
    ELSE Ok(Number(FALSE, a.s * b.s, a.n * b.d, a.d * b.n, a.x - b.x))

\* x ** k for a finite x and an integer k >= 0, as a rational
RECURSIVE PowNat(_, _)
PowNat(a, k) ==
    IF k = 0 THEN Val(a.ty, "fin", 1, 1, 1, 0)
    ELSE The({ Val(a.ty, "fin", a.s * r.s, a.n * r.n, a.d * r.d, a.x + r.x) :
               r \in {PowNat(a, k - 1)} })

\* x ** y.  The model holds the powers with an integer exponent; a power with
\* any other exponent is a float it holds no digits of (sp = "inexact").
PyPow(a, b) ==
    IF ~IsNumber(a) \/ ~IsNumber(b) THEN Raise("TypeError")
    ELSE IF a.sp # "fin" \/ b.sp # "fin" THEN Ok(Val("float", "inexact", 1, 0, 1, 0))
    ELSE IF b.d # 1 \/ b.x < 0 THEN Ok(Val("float", "inexact", 1, 0, 1, 0))
    ELSE LET k == b.n * Pow10(b.x)
             asInt == IsIntLike(a) /\ IsIntLike(b)
         IN  The({ IF b.s = 1 \/ k = 0
                   THEN (IF ~asInt /\ PyFloat(r.s, r.n, r.d, r.x).sp = "inf"
                         THEN Raise("OverflowError")
                         ELSE Ok(Number(asInt, r.s, r.n, r.d, r.x)))
                   ELSE IF a.n = 0 THEN Raise("ZeroDivisionError")
                   ELSE Ok(Number(FALSE, r.s, r.d, r.n, -r.x)) : r \in {PowNat(a, k)} })

\* the result itself where abs(result) belongs
PyAbs_Skipped(v) == IF ~IsNumber(v) THEN Raise("TypeError") ELSE Ok(v)

\* abs(x)
PyAbs(v) ==
    IF ~IsNumber(v) THEN Raise("TypeError")
    ELSE IF IsIntLike(v) THEN Ok(Number(TRUE, 1, v.n, 1, 0))
    ELSE Ok([v EXCEPT !.s = 1])

\* x > 1e308 (line 90); a NaN compares false
OverflowExp == 308

GtLimit(v) ==
    /\ v.s = 1
    /\ \/ v.sp = "inf"
       \/ v.sp = "fin" /\ DecGt(v.n, v.x, v.d, OverflowExp)

(***************************************************************************)
(* str(x), as the f-string of line 93 formats the result.                  *)
(***************************************************************************)
RECURSIVE IntChars(_)
IntChars(n) ==
    IF n < 10 THEN <<DigitChar(n)>> ELSE Append(IntChars(n \div 10), DigitChar(n % 10))

RECURSIVE Zeros(_)
Zeros(k) == IF k <= 0 THEN <<>> ELSE <<"0">> \o Zeros(k - 1)

Sign(s) == IF s = -1 THEN <<"-">> ELSE <<>>

\* repr of a finite float n * 10^x: its digits, in positional notation when
\* the decimal exponent e is in -4..15 and in scientific notation otherwise
FloatChars(n, x) ==
    LET ds == IntChars(n)
        k  == Len(ds)
        e  == k - 1 + x
        ae == IF e < 0 THEN -e ELSE e
    IN  IF n = 0 THEN <<"0", ".", "0">>
        ELSE IF e >= 16 \/ e < -4
        THEN <<ds[1]>> \o (IF k > 1 THEN <<".">> \o SubSeq(ds, 2, k) ELSE <<>>)
             \o <<"e", IF e < 0 THEN "-" ELSE "+">>
             \o (IF ae < 10 THEN <<"0">> ELSE <<>>) \o IntChars(ae)
        ELSE IF x >= 0 THEN ds \o Zeros(x) \o <<".", "0">>
        ELSE IF e >= 0 THEN SubSeq(ds, 1, k + x) \o <<".">> \o SubSeq(ds, k + x + 1, k)
        ELSE <<"0", ".">> \o Zeros(-e - 1) \o ds

str(v) ==
    CASE v.ty = "bool" -> IF v.n = 1 THEN <<"T", "r", "u", "e">>
                          ELSE <<"F", "a", "l", "s", "e">>
      [] v.ty = "int" -> Sign(v.s) \o IntChars(v.n)
      [] v.ty = "float" /\ v.sp = "inf" -> Sign(v.s) \o <<"i", "n", "f">>
      [] v.ty = "float" /\ v.sp = "nan" -> <<"n", "a", "n">>
      [] v.ty = "float" /\ v.sp = "fin" /\ v.d = 1 -> Sign(v.s) \o FloatChars(v.n, v.x)
      [] v.ty = "NoneType" -> <<"N", "o", "n", "e">>
      [] OTHER -> <<"<", v.ty, ">">>    \* a value the model holds no digits of

(***************************************************************************)
(* class SafeMathTransformer(ast.NodeVisitor), lines 3-57.                 *)
(***************************************************************************)
\* the methods the class body defines
Methods == {"init", "handle_division", "visit_BinOp", "visit_Num",
            "visit_Constant", "visit_UnaryOp", "visit"}

\* the node classes the class defines a visit_<class> method for
VisitMethods == {"BinOp", "Num", "Constant", "UnaryOp"}

\* an instance: the attributes it has, and their values
Instance(attrs, ops, res) == [attrs |-> attrs, allowed_operators |-> ops, result |-> res]

\* lines 4-13: the keys of the operator table, and result = None
init(self) ==
    Instance(self.attrs \cup {"allowed_operators", "result"},
             {"Add", "Sub", "Mult", "Div", "Pow"}, None)

\* SafeMathTransformer() (line 85): object construction runs __init__ when
\* the class defines one
SafeMathTransformer ==
    LET blank == Instance({}, {}, Absent) IN
    IF "__init__" \in Methods THEN init(blank) ELSE blank

\* lines 15-19
handle_division(numerator, denominator) ==
    IF IsNumber(denominator) /\ IsZero(denominator) THEN Raise("ValueError")
    ELSE PyTrueDiv(numerator, denominator)

\* the lambdas of lines 6-10
operator_func(name, x, y) ==
    CASE name = "Add" -> PyAdd(x, y)
      [] name = "Sub" -> PySub(x, y)
      [] name = "Mult" -> PyMul(x, y)
      [] name = "Div" -> handle_division(x, y)
      [] name = "Pow" -> PyPow(x, y)

\* both signs as unary plus
unary_func_NoNegation(name, x) == PyPos(x)

\* the lambdas of lines 44-47
unary_func(name, x) == IF name = "USub" THEN PyNeg(x) ELSE PyPos(x)

\* ast.iter_child_nodes: the fields that are nodes, in the order of _fields
children(node) ==
    CASE node.kind = "Expression" -> <<node.body>>
      [] node.kind = "BinOp" -> <<node.left, node.op, node.right>>
      [] node.kind = "UnaryOp" -> <<node.op, node.operand>>
      [] node.kind = "Call" -> <<node.func>> \o node.args
      [] node.kind = "Attribute" -> <<node.value, node.ctx>>
      [] node.kind = "Name" -> <<node.ctx>>
      [] node.kind \in {"List", "Tuple"} -> node.elts \o <<node.ctx>>
      [] node.kind = "Compare" -> <<node.left>> \o node.ops \o node.comparators
      [] node.kind = "BoolOp" -> <<node.op>> \o node.values
      [] OTHER -> <<>>

\* The outcome of a visit: the value returned or the exception raised, the
\* instance afterwards, and the classes of the nodes visited, in order.
Visit(ok, v, e, self, trace) ==
    [ok |-> ok, v |-> v, exc |-> e, self |-> self, trace |-> trace]

RECURSIVE visit(_, _), generic_visit(_, _, _), visit_BinOp(_, _), visit_UnaryOp(_, _)

\* a division by zero that gives its numerator instead of failing
apply_BinOp_ZeroSkipped(self, name, left, right, trace) ==
    IF name = "Div" /\ IsNumber(right) /\ IsZero(right)
    THEN Visit(TRUE, left, "", self, trace)
    ELSE IF "allowed_operators" \notin self.attrs
    THEN Visit(FALSE, None, "AttributeError", self, trace)
    ELSE IF name \notin self.allowed_operators
    THEN Visit(FALSE, None, "ValueError", self, trace)
    ELSE The({ Visit(r.ok, r.v, r.exc, self, trace) :
               r \in {operator_func(name, left, right)} })

\* lines 24-29, with both operands evaluated
apply_BinOp(self, name, left, right, trace) ==
    IF "allowed_operators" \notin self.attrs
    THEN Visit(FALSE, None, "AttributeError", self, trace)
    ELSE IF name \notin self.allowed_operators
    THEN Visit(FALSE, None, "ValueError", self, trace)
    ELSE The({ Visit(r.ok, r.v, r.exc, self, trace) :
               r \in {operator_func(name, left, right)} })

\* lines 21-29
visit_BinOp(self, node) ==
    The({ IF ~left.ok THEN left
          ELSE The({ IF ~right.ok THEN [right EXCEPT !.trace = left.trace \o @]
                     ELSE apply_BinOp(right.self, node.op.kind, left.v, right.v,
                                      left.trace \o right.trace) :
                     right \in {visit(left.self, node.right)} }) :
          left \in {visit(self, node.left)} })

\* lines 31-32 (no node of class Num comes out of the parser of Python 3.8+)
visit_Num(self, node) == Visit(TRUE, node.value, "", self, <<>>)

\* lines 34-39: bool is a subclass of int
visit_Constant(self, node) ==
    IF node.value.ty \in {"int", "float", "bool"}
    THEN Visit(TRUE, node.value, "", self, <<>>)
    ELSE Visit(FALSE, None, "ValueError", self, <<>>)

\* lines 41-52
visit_UnaryOp(self, node) ==
    The({ IF ~operand.ok THEN operand
          ELSE IF node.op.kind \notin {"USub", "UAdd"}
          THEN Visit(FALSE, None, "ValueError", operand.self, operand.trace)
          ELSE The({ Visit(r.ok, r.v, r.exc, operand.self, operand.trace) :
                     r \in {unary_func(node.op.kind, operand.v)} }) :
          operand \in {visit(self, node.operand)} })

\* NodeVisitor.generic_visit: visit the child nodes in turn, return None
generic_visit(self, nodes, trace) ==
    IF nodes = <<>> THEN Visit(TRUE, None, "", self, trace)
    ELSE The({ IF ~first.ok THEN [first EXCEPT !.trace = trace \o @]
               ELSE The({ generic_visit(first.self, rest, next) :
                          rest \in {Tail(nodes)}, next \in {trace \o first.trace} }) :
               first \in {visit(self, Head(nodes))} })

\* NodeVisitor.visit: dispatch on the node's class
dispatch(self, node) ==
    CASE node.kind \notin VisitMethods -> generic_visit(self, children(node), <<>>)
      [] node.kind = "BinOp" -> visit_BinOp(self, node)
      [] node.kind = "Num" -> visit_Num(self, node)
      [] node.kind = "Constant" -> visit_Constant(self, node)
      [] node.kind = "UnaryOp" -> visit_UnaryOp(self, node)

\* lines 54-57
visit(self, node) ==
    The({ IF r.ok
          THEN Visit(TRUE, r.v, "", [r.self EXCEPT !.attrs = @ \cup {"result"},
                                                   !.result = r.v],
                     <<node.kind>> \o r.trace)
          ELSE [r EXCEPT !.trace = <<node.kind>> \o @] : r \in {dispatch(self, node)} })

(***************************************************************************)
(* calculator(equation), lines 59-98.                                      *)
(***************************************************************************)
\* line 73: the classes of valid_nodes
valid_nodes == {"BinOp", "Num", "Constant", "UnaryOp", "UAdd", "USub"}

\* isinstance(node, classes); a Constant holding a number is an instance of
\* the deprecated class Num
isinstance(node, classes) ==
    \/ node.kind \in classes
    \/ "Num" \in classes /\ node.kind = "Constant"
       /\ node.value.ty \in {"int", "float", "complex"}

\* ast.walk: breadth first, from a queue of nodes still to yield
RECURSIVE walk(_)
walk(todo) ==
    IF todo = <<>> THEN <<>>
    ELSE The({ <<Head(todo)>> \o walk(nxt) :
               nxt \in {Tail(todo) \o children(Head(todo))} })

\* lines 77-83, for the nodes from index i on: TRUE when the loop runs to its
\* end, FALSE when it returns
RECURSIVE check_nodes(_, _)
check_nodes(nodes, i) ==
    IF i > Len(nodes) THEN TRUE
    ELSE IF isinstance(nodes[i], {"Call"}) THEN FALSE
    ELSE IF isinstance(nodes[i], valid_nodes) \/ nodes[i].kind \in STRING
    THEN check_nodes(nodes, i + 1)
    ELSE FALSE

\* the checks on the root of the expression only, without the walk
validate_RootOnly(root) == check_nodes(<<root, root.body>>, 1)

\* lines 76-83
validate(root) == The({ check_nodes(nodes, 1) : nodes \in {walk(<<root>>)} })

\* a handler for the errors the code raises itself only
Caught_OwnErrors == {"SyntaxError", "ValueError"}

\* the exception classes "except Exception" (line 95) catches
Caught == {"SyntaxError", "ValueError", "TypeError", "AttributeError",
           "ZeroDivisionError", "OverflowError"}

InvalidEquation ==
    <<"I", "n", "v", "a", "l", "i", "d", " ", "e", "q", "u", "a", "t", "i", "o", "n">>

\* the cleaned text echoed where the original belongs
Success_Cleaned(eq, res) == join(split(eq)) \o <<" ", "=", " ">> \o str(res)

\* line 93
Success(eq, res) == eq \o <<" ", "=", " ">> \o str(res)

NoTree == Leaf("<none>")

NoCall == [equation |-> <<>>, cleaned_equation |-> <<>>, pc |-> "", ret |-> <<>>,
           result |-> Absent]

Init ==
    /\ equation \in Equations
    /\ pc = "Start"
    /\ cleaned_equation = <<>>
    /\ tree = NoTree
    /\ transformer = Instance({}, {}, Absent)
    /\ result = Absent
    /\ exc = ""
    /\ printed = <<>>
    /\ ret = <<>>
    /\ visited = <<>>
    /\ prev = NoCall

\* line 67
Clean ==
    /\ pc = "Start"
    /\ cleaned_equation' = join(split(equation))
    /\ pc' = "Cleaned"
    /\ UNCHANGED <<equation, tree, transformer, result, exc, printed, ret, visited, prev>>

\* line 70
Parse ==
    /\ pc = "Cleaned"
    /\ \E r \in {parse(cleaned_equation)} :
       IF r.ok
       THEN /\ tree' = r.node
            /\ pc' = "Parsed"
            /\ exc' = exc
       ELSE /\ tree' = tree
            /\ pc' = "Except"
            /\ exc' = "SyntaxError"
    /\ UNCHANGED <<equation, cleaned_equation, transformer, result, printed, ret, visited, prev>>

\* lines 72-83
Validate ==
    /\ pc = "Parsed"
    /\ IF validate(tree)
       THEN /\ pc' = "Validated"
            /\ ret' = ret
       ELSE /\ pc' = "Done"
            /\ ret' = InvalidEquation
    /\ UNCHANGED <<equation, cleaned_equation, tree, transformer, result, exc, printed,
                   visited, prev>>

\* lines 85-87
Evaluate ==
    /\ pc = "Validated"
    /\ \E r \in {visit(SafeMathTransformer, tree.body)} :
       /\ transformer' = r.self
       /\ visited' = r.trace
       /\ IF r.ok
          THEN /\ result' = r.v
               /\ pc' = "Evaluated"
               /\ exc' = exc
          ELSE /\ result' = result
               /\ pc' = "Except"
               /\ exc' = r.exc
    /\ UNCHANGED <<equation, cleaned_equation, tree, printed, ret, prev>>

\* lines 89-93
Format ==
    /\ pc = "Evaluated"
    /\ \E a \in {PyAbs(result)} :
       IF ~a.ok
       THEN /\ pc' = "Except"
            /\ exc' = a.exc
            /\ ret' = ret
       ELSE IF GtLimit(a.v)
       THEN /\ pc' = "Except"
            /\ exc' = "ValueError"
            /\ ret' = ret
       ELSE /\ pc' = "Done"
            /\ exc' = exc
            /\ ret' = Success(equation, result)
    /\ UNCHANGED <<equation, cleaned_equation, tree, transformer, result, printed,
                   visited, prev>>

\* lines 95-98; an exception the clause does not catch reaches the caller
Except ==
    /\ pc = "Except"
    /\ IF exc \in Caught
       THEN /\ printed' = Append(printed, exc)
            /\ ret' = InvalidEquation
            /\ pc' = "Done"
       ELSE /\ printed' = printed
            /\ ret' = ret
            /\ pc' = "Raised"
    /\ UNCHANGED <<equation, cleaned_equation, tree, transformer, result, exc, visited, prev>>

Next == Clean \/ Parse \/ Validate \/ Evaluate \/ Format \/ Except

Spec == Init /\ [][Next]_vars

(***************************************************************************)
(* Two calls in a row.  The second call's text is the first one's with its *)
(* whitespace removed, or with one more whitespace character somewhere.    *)
(***************************************************************************)
IsSpace(c) == c \in Whitespace

InsertAt(s, i, c) == SubSeq(s, 1, i) \o <<c>> \o SubSeq(s, i + 1, Len(s))

Variants(s) ==
    ({ SelectSeq(s, LAMBDA c : ~IsSpace(c)) }
       \cup { InsertAt(s, i, c) : i \in 0..Len(s), c \in Whitespace }) \ {s}

PairEquations == UNION { TextsOfLen(k) : k \in 0..(MaxLen - 1) } \cup Examples

InitPair ==
    /\ equation \in PairEquations
    /\ pc = "Start"
    /\ cleaned_equation = <<>>
    /\ tree = NoTree
    /\ transformer = Instance({}, {}, Absent)
    /\ result = Absent
    /\ exc = ""
    /\ printed = <<>>
    /\ ret = <<>>
    /\ visited = <<>>
    /\ prev = NoCall

\* the caller keeps what the first call returned and calls again; a call
\* starts with fresh locals and a fresh transformer
NextCall ==
    /\ pc = "Done"
    /\ prev = NoCall
    /\ prev' = [equation |-> equation, cleaned_equation |-> cleaned_equation,
                pc |-> pc, ret |-> ret, result |-> result]
    /\ equation' \in Variants(equation)
    /\ pc' = "Start"
    /\ cleaned_equation' = <<>>
    /\ tree' = NoTree
    /\ transformer' = Instance({}, {}, Absent)
    /\ result' = Absent
    /\ exc' = ""
    /\ ret' = <<>>
    /\ visited' = <<>>
    /\ printed' = printed

NextPair == Next \/ NextCall

SpecPair == InitPair /\ [][NextPair]_vars

(***************************************************************************)
(* What the claims speak of.                                               *)
(***************************************************************************)
\* a node and every node below it
RECURSIVE Nodes(_)
Nodes(n) == {n} \cup UNION { Nodes(children(n)[i]) : i \in 1..Len(children(n)) }

\* the expression nodes of the parsed tree (operators and contexts left out)
ExprNodes == IF tree.kind = "Expression"
             THEN { n \in Nodes(tree.body) : DOMAIN n # {"kind"} }
             ELSE {}

Strip(s) == SelectSeq(s, LAMBDA c : c \notin Whitespace)

NumericLiteral(n) == n.kind = "Constant" /\ n.value.ty \in {"int", "float"}

ArithmeticOp(n) ==
    n.kind = "BinOp" /\ n.op.kind \in {"Add", "Sub", "Mult", "Div", "Pow"}

SignOp(n) == n.kind = "UnaryOp" /\ n.op.kind \in {"UAdd", "USub"}

\* |v| <= 1e308, for a finite v
WithinLimit(v) == v.sp = "fin" /\ ~DecGt(v.n, v.x, v.d, OverflowExp)

\* same number, whatever the type
SameNumber(a, b) ==
    /\ a.sp = b.sp
    /\ a.sp = "fin" => NormFloat(a.s, a.n, a.d, a.x) = NormFloat(b.s, b.n, b.d, b.x)
    /\ a.sp = "inf" => a.s = b.s

\* The value arithmetic gives an expression of literals, signs and the five
\* operators; undefined for a division by zero and for anything else.
RECURSIVE RefEval(_)
RefEval(n) ==
    CASE n.kind = "Constant" /\ IsNumber(n.value) -> Ok(n.value)
      [] SignOp(n) ->
            LET x == RefEval(n.operand) IN
            IF ~x.ok THEN x
            ELSE IF n.op.kind = "USub" THEN PyNeg(x.v) ELSE PyPos(x.v)
      [] ArithmeticOp(n) ->
            LET l == RefEval(n.left)
                r == RefEval(n.right)
            IN  IF ~l.ok THEN l
                ELSE IF ~r.ok THEN r
                ELSE (CASE n.op.kind = "Add" -> PyAdd(l.v, r.v)
                        [] n.op.kind = "Sub" -> PySub(l.v, r.v)
                        [] n.op.kind = "Mult" -> PyMul(l.v, r.v)
                        [] n.op.kind = "Div" -> PyTrueDiv(l.v, r.v)
                        [] n.op.kind = "Pow" -> PyPow(l.v, r.v))
      [] OTHER -> Raise("undefined")

\* ret is "<equation> = <text>"
Echoes(r, eq, text) == r = eq \o <<" ", "=", " ">> \o text

(***************************************************************************)
(* C1.  An input built only from numeric literals, + - * / ** and unary    *)
(* signs, whose value is defined and within range, returns                 *)
(* "<input> = <v>" with v its arithmetic value.                            *)
(***************************************************************************)
Arithmetic ==
    /\ tree.kind = "Expression"
    /\ \A n \in ExprNodes : NumericLiteral(n) \/ ArithmeticOp(n) \/ SignOp(n)
    /\ RefEval(tree.body).ok
    /\ WithinLimit(RefEval(tree.body).v)

C1_ArithmeticValue ==
    (pc = "Done" /\ Arithmetic) =>
        /\ ret # InvalidEquation
        /\ SameNumber(result, RefEval(tree.body).v)
        /\ Echoes(ret, equation, str(result))

(***************************************************************************)
(* C2.  A tree with a call node at any depth is rejected with              *)
(* "Invalid equation" by the validation step: the evaluator is never       *)
(* started, nothing is raised and nothing is printed.                      *)
(***************************************************************************)
HasCall == \E n \in Nodes(tree) : n.kind = "Call"

C2_CallRejectedInValidation ==
    HasCall =>
        /\ pc \in {"Parsed", "Done"}
        /\ visited = <<>>
        /\ transformer.attrs = {}
        /\ exc = "" /\ printed = <<>>
        /\ pc = "Done" => ret = InvalidEquation

C2_Witness ==
    /\ pc = "Done" /\ ret = InvalidEquation
    /\ tree.kind = "Expression" /\ tree.body.kind # "Call"
    /\ HasCall

(***************************************************************************)
(* C3.  A tree with a node that is no numeric literal, no binary           *)
(* arithmetic operation and no unary sign operation returns                *)
(* "Invalid equation", never a success string.                             *)
(***************************************************************************)
HasForeignNode ==
    \E n \in ExprNodes : ~(NumericLiteral(n) \/ ArithmeticOp(n) \/ SignOp(n))

C3_ForeignNodeRejected ==
    (pc = "Done" /\ HasForeignNode) => ret = InvalidEquation

\* C3 for the trees whose only foreign nodes are not boolean literals
HasForeignNodeNotBool ==
    \E n \in ExprNodes :
        /\ ~(NumericLiteral(n) \/ ArithmeticOp(n) \/ SignOp(n))
        /\ ~(n.kind = "Constant" /\ n.value.ty = "bool")

C3_ExceptBooleans ==
    (pc = "Done" /\ HasForeignNodeNotBool) => ret = InvalidEquation

(***************************************************************************)
(* C4.  A literal whose value is not an int or a float (a string, a        *)
(* boolean, None, an ellipsis, a complex number) returns                   *)
(* "Invalid equation".                                                     *)
(***************************************************************************)
HasOtherLiteral ==
    \E n \in ExprNodes : n.kind = "Constant" /\ n.value.ty \notin {"int", "float"}

C4_OtherLiteralRejected ==
    (pc = "Done" /\ HasOtherLiteral) => ret = InvalidEquation

(***************************************************************************)
(* C5.  A division whose right operand has the value zero, at any depth,   *)
(* returns "Invalid equation": the evaluation never completes and no       *)
(* result is returned.                                                     *)
(***************************************************************************)
HasZeroDivision ==
    \E n \in ExprNodes :
        /\ n.kind = "BinOp" /\ n.op.kind = "Div"
        /\ RefEval(n.right).ok /\ IsZero(RefEval(n.right).v)

C5_DivisionByZeroRejected ==
    HasZeroDivision =>
        /\ pc \notin {"Evaluated", "Raised"}
        /\ result = Absent
        /\ pc = "Done" => ret = InvalidEquation

C5_Witness ==
    /\ pc = "Done" /\ ret = InvalidEquation
    /\ HasZeroDivision
    /\ ~(tree.body.kind = "BinOp" /\ tree.body.op.kind = "Div")
    /\ "BinOp" \in { visited[i] : i \in 1..Len(visited) }

(***************************************************************************)
(* C6.  The magnitude check is made on the final result only: a result     *)
(* that is above 1e308 in absolute value, infinite or NaN returns          *)
(* "Invalid equation", so a success string reports a finite number of      *)
(* magnitude at most 1e308; the evaluator itself lets such values through. *)
(***************************************************************************)
OutOfRange(v) == IsNumber(v) /\ ~WithinLimit(v)

C6_MagnitudeChecked ==
    /\ (pc = "Done" /\ OutOfRange(result)) => ret = InvalidEquation
    /\ (pc = "Done" /\ ret # InvalidEquation) => IsNumber(result) /\ WithinLimit(result)
    /\ (exc = "ValueError" /\ result # Absent) => OutOfRange(result)

C6_Witness ==
    /\ pc = "Done" /\ ret = InvalidEquation /\ exc = "ValueError"
    /\ OutOfRange(result) /\ result.s = -1
    /\ Len(visited) > 1

(***************************************************************************)
(* C7.  calculator never raises to its caller and always ends, either with *)
(* "Invalid equation" (after every failure) or with                        *)
(* "<original equation> = <result>".                                       *)
(***************************************************************************)
C7_TwoOutcomes ==
    /\ pc # "Raised"
    /\ pc = "Done" \/ ENABLED Next
    /\ pc = "Done" =>
          \/ ret = InvalidEquation
          \/ exc = "" /\ Echoes(ret, equation, str(result)) /\ IsNumber(result)
    /\ (pc = "Done" /\ (exc # "" \/ tree = NoTree \/ result = Absent)) => ret = InvalidEquation

C7_Witness == pc = "Done" /\ exc = "AttributeError" /\ ret = InvalidEquation

(***************************************************************************)
(* C8.  Unary plus gives the operand's value and unary minus its negation; *)
(* a chain of signs on a numeric literal returns "<input> = <value>" with  *)
(* one negation per minus sign; any other unary operator is rejected.      *)
(***************************************************************************)
RECURSIVE SignChain(_)
SignChain(n) == SignOp(n) /\ (NumericLiteral(n.operand) \/ SignChain(n.operand))

Negated(v) == [v EXCEPT !.s = IF v.ty = "int" /\ v.n = 0 THEN 1 ELSE -v.s]

RECURSIVE ChainValue(_)
ChainValue(n) ==
    IF n.kind = "Constant" THEN n.value
    ELSE IF n.op.kind = "USub" THEN Negated(ChainValue(n.operand))
    ELSE ChainValue(n.operand)

IsSignChain == tree.kind = "Expression" /\ SignChain(tree.body)

HasOtherUnary == \E n \in ExprNodes : n.kind = "UnaryOp" /\ ~SignOp(n)

\* the operand of a sign at the root of the tree has a value
SignOfValue ==
    /\ tree.kind = "Expression" /\ SignOp(tree.body)
    /\ RefEval(tree.body.operand).ok

\* C8 as claimed: every chain of signs on a numeric literal succeeds
C8_SignChainSucceeds ==
    (pc = "Done" /\ IsSignChain) => Echoes(ret, equation, str(ChainValue(tree.body)))

\* C8 as amended: it succeeds when the literal's magnitude is at most 1e308,
\* and returns "Invalid equation" when it is larger
C8_SignChainWithinLimit ==
    /\ (pc = "Done" /\ IsSignChain) =>
          IF WithinLimit(ChainValue(tree.body))
          THEN Echoes(ret, equation, str(ChainValue(tree.body)))
          ELSE ret = InvalidEquation
    /\ (pc \in {"Evaluated", "Done"} /\ SignOfValue) =>
          result = (IF tree.body.op.kind = "USub"
                    THEN PyNeg(RefEval(tree.body.operand).v).v
                    ELSE PyPos(RefEval(tree.body.operand).v).v)
    /\ (pc = "Done" /\ HasOtherUnary) => ret = InvalidEquation

C8_Witness ==
    /\ pc = "Done" /\ IsSignChain
    /\ tree.body.op.kind = "USub" /\ tree.body.operand.kind = "UnaryOp"
    /\ tree.body.operand.op.kind = "USub"
    /\ Echoes(ret, equation, str(tree.body.operand.operand.value))

(***************************************************************************)
(* C9.  Two inputs that are the same text once whitespace is removed both  *)
(* return "Invalid equation", or both succeed with the same result, each   *)
(* echoing its own original text.                                          *)
(***************************************************************************)
SameCleanedText ==
    /\ prev.pc = "Done" /\ pc = "Done"
    /\ Strip(equation) = Strip(prev.equation)

C9_WhitespaceInsensitive ==
    SameCleanedText =>
        \/ ret = InvalidEquation /\ prev.ret = InvalidEquation
        \/ /\ ret # InvalidEquation /\ prev.ret # InvalidEquation
           /\ result = prev.result
           /\ Echoes(ret, equation, str(result))
           /\ Echoes(prev.ret, prev.equation, str(result))

C9_Witness ==
    /\ SameCleanedText
    /\ ret # InvalidEquation
    /\ equation # prev.equation
    /\ \E i \in 2..(Len(equation) - 1) : equation[i] \in Whitespace

(***************************************************************************)
(* C10.  The steps run in the order Cleaned, Parsed, Validated, Evaluated, *)
(* and the evaluator is only started on a tree whose nodes are all         *)
(* literals, binary operations with an operator among Add, Sub, Mult, Div, *)
(* Pow, and unary operations with an operator among UAdd, USub.            *)
(***************************************************************************)
AllowedKind(n) == n.kind = "Constant" \/ ArithmeticOp(n) \/ SignOp(n)

C10_EvaluatorOnValidatedTree ==
    (pc \in {"Validated", "Evaluated"} \/ visited # <<>>) =>
        /\ cleaned_equation = Strip(equation)
        /\ tree.kind = "Expression"
        /\ \A n \in ExprNodes : AllowedKind(n)

\* the order of the steps alone
C10_StepOrder ==
    [][\/ pc = "Start" /\ pc' = "Cleaned"
       \/ pc = "Cleaned" /\ pc' \in {"Parsed", "Except"}
       \/ pc = "Parsed" /\ pc' \in {"Validated", "Done"}
       \/ pc = "Validated" /\ pc' \in {"Evaluated", "Except"}
       \/ pc = "Evaluated" /\ pc' \in {"Done", "Except"}
       \/ pc = "Except" /\ pc' = "Done"]_vars

====
